---- MODULE Spec2Model ----
(***************************************************************************)
(* Model of sqlmodel_celery_beat: the schedule and periodic-task tables    *)
(* (models.py) and the clock helper (util.py).                             *)
(*                                                                         *)
(* Python values are modelled as follows.  An Optional value is a sequence *)
(* of length at most one: None is << >> and a set value v is << v >>.      *)
(* A keyword-argument dictionary is a function from the keys it holds to   *)
(* their values.  An exception leaving a call is the name of its class.    *)
(* Timestamps returned by nowfun() are natural numbers (seconds).          *)
(***************************************************************************)
EXTENDS Integers, Sequences, FiniteSets, TLC

VARIABLES
    values,       \* the mapping handed to PeriodicTask.validate_unique
    vresult,      \* what validate_unique did with it
    latitude,     \* keyword arguments of SolarSchedule(...)
    longitude,
    solar,        \* the SolarSchedule that construction produced
    interval,     \* an IntervalSchedule row: [every, period]
    last_run_at,  \* the owning task's last_run_at handed to is_due
    due,          \* what IntervalSchedule.schedule.is_due(last_run_at) gave
    now,          \* the clock read by nowfun()
    mem,          \* PeriodicTask objects held by the caller
    db,           \* committed rows of the periodictask table
    attached,     \* objects the session holds (session.add)
    deleted,      \* objects marked by session.delete, not yet flushed
    changed_rows, \* rows of the periodictaskschanged table
    last,         \* the last call made and how it ended
    pc            \* per writer: where it stands inside save / delete

valVars == <<values, vresult>>
solVars == <<latitude, longitude, solar>>
ivlVars == <<interval, last_run_at, due>>
taskVars == <<mem, db, attached, deleted>>
vars == <<values, vresult, latitude, longitude, solar, interval, last_run_at,
          due, now, mem, db, attached, deleted, changed_rows, last, pc>>

\* ---------------------------------------------------------------- bounds
MaxTime == 2      \* the clock runs 0..MaxTime
MaxEvery == 3     \* IntervalSchedule.every ranges over 1..MaxEvery
Margin == 2       \* how far past the latitude/longitude limits inputs go
MaxClock == 62    \* the clock of the interval specification runs up to here

\* ------------------------------------------------------- Python helpers
None == << >>
Some(v) == << v >>
Truthy(o) == o # None

\* dict.get(k): None when the key is absent
Get(d, k) == IF k \in DOMAIN d THEN d[k] ELSE None
HasKey(d, k) == k \in DOMAIN d

\* ------------------------------------------------------------- util.py
\* nowfun(): the current UTC time
nowfun == now

\* ------------------------------------------------ PeriodicTask (models.py)
\* The schedule references a PeriodicTask declares.
References == {"interval", "cron", "solar", "clocked"}

\* A PeriodicTask with its declared attributes at their defaults.
TaskDefaults ==
    [interval |-> None, cron |-> None, solar |-> None, clocked |-> None,
     expires |-> None, expire_seconds |-> None, one_off |-> FALSE,
     enabled |-> TRUE, last_run_at |-> None, no_changes |-> FALSE]

\* cls(**kwargs) / setattr(self, k, v) for every k, v: the keywords given
\* replace the attributes of the same name.
WithAttrs(rec, kw) ==
    [k \in DOMAIN rec |-> IF k \in DOMAIN kw THEN kw[k] ELSE rec[k]]

\* Outcomes of validate_unique.
Pending == "pending"
MissingSchedule == "One of clocked, interval, crontab, or solar must be set."
MultipleSchedules == "Only one of clocked, interval, crontab, or solar must be set"
ClockedNotOneOff == "clocked must be one off, one_off must set True"
BothExpiry == "Only one can be set, in expires and expire_seconds"
KeyError == "KeyError"
Passed == "passed"
ValidationErrors ==
    {MissingSchedule, MultipleSchedules, ClockedNotOneOff, BothExpiry}

\* The names validate_unique looks up.
schedule_types == {"interval", "crontab", "solar", "clocked"}

selected_schedule_types(v) == {s \in schedule_types : Get(v, s) # None}

\* "if values["clocked"] and not values["one_off"]": one_off is read only
\* when clocked is truthy; a subscript of an absent key raises KeyError.
clocked_check_inverted(v) ==
    IF ~HasKey(v, "clocked") THEN KeyError
    ELSE IF ~Truthy(v["clocked"]) THEN Passed
    ELSE IF ~HasKey(v, "one_off") THEN KeyError
    ELSE IF v["one_off"] THEN ClockedNotOneOff
    ELSE Passed

clocked_check(v) ==
    IF ~HasKey(v, "clocked") THEN KeyError
    ELSE IF ~Truthy(v["clocked"]) THEN Passed
    ELSE IF ~HasKey(v, "one_off") THEN KeyError
    ELSE IF ~v["one_off"] THEN ClockedNotOneOff
    ELSE Passed

\* "if (values["expires_seconds"] is not None) and (values["expires"] is
\* not None)": the left operand is evaluated first.
expiry_check(v) ==
    IF ~HasKey(v, "expires_seconds") THEN KeyError
    ELSE IF v["expires_seconds"] = None THEN Passed
    ELSE IF ~HasKey(v, "expires") THEN KeyError
    ELSE IF v["expires"] # None THEN BothExpiry
    ELSE Passed

\* The root validator: the first failing check decides.  Falling off the
\* end is Passed.
validate_unique(v) ==
    IF Cardinality(selected_schedule_types(v)) = 0 THEN MissingSchedule
    ELSE IF Cardinality(selected_schedule_types(v)) > 1 THEN MultipleSchedules
    ELSE IF clocked_check(v) # Passed THEN clocked_check(v)
    ELSE expiry_check(v)

\* ----------------------------------------- specification: validation
\* Every combination of set/unset schedule references, one_off and the two
\* expiry fields, handed to the validator under the attribute names the
\* class declares.
OptRef == {None, Some(1)}
OptTime == {None, Some(0)}
OptSeconds == {None, Some(1)}

ValidateInputs ==
    {WithAttrs(TaskDefaults,
               [interval |-> i, cron |-> c, solar |-> s, clocked |-> k,
                one_off |-> o, expires |-> e, expire_seconds |-> x]) :
        i \in OptRef, c \in OptRef, s \in OptRef, k \in OptRef,
        o \in BOOLEAN, e \in OptTime, x \in OptSeconds}

Validate ==
    /\ vresult = Pending
    /\ vresult' = validate_unique(values)
    /\ UNCHANGED <<values, solVars, ivlVars, now, taskVars, changed_rows, last, pc>>

Idle ==
    [op |-> "none", task |-> "none", at |-> 0, exc |-> "", ret |-> None,
     had |-> None]

NoDue == [exc |-> Pending, is_due |-> FALSE, next |-> 0, at |-> 0]

NoSolar == [state |-> Pending, latitude |-> None, longitude |-> None]

Tasks == {"t1", "t2"}
Writers == {"w1", "w2"}
AtRest == [step |-> "idle", op |-> "none", at |-> 0, exc |-> "", ended |-> None]

\* The parts of the state a specification does not use stay as set here.
NoValidation == values = TaskDefaults /\ vresult = Pending
NoSolarInput == latitude = 0 /\ longitude = 0 /\ solar = NoSolar
NoInterval ==
    /\ interval = [every |-> 1, period |-> [type |-> "str", value |-> "seconds"]]
    /\ last_run_at = 0 /\ due = NoDue
NoTasks ==
    /\ mem = [t \in Tasks |-> None] /\ db = [t \in Tasks |-> None]
    /\ attached = {} /\ deleted = {}
    /\ changed_rows = {}
    /\ last = Idle
    /\ pc = [w \in Writers |-> AtRest]

InitValidate ==
    /\ values \in ValidateInputs
    /\ vresult = Pending
    /\ NoSolarInput /\ NoInterval /\ now = 0 /\ NoTasks

SpecValidate == InitValidate /\ [][Validate]_vars

SetRefs(v) == {r \in References : v[r] # None}

\* C2: validation passes the schedule-multiplicity rule iff exactly one of
\* the four schedule references is set: none set gives the missing-schedule
\* error, two or more the multiplicity error, exactly one neither of them.
C2_ExactlyOneSchedule ==
    vresult # Pending =>
        /\ Cardinality(SetRefs(values)) = 0 => vresult = MissingSchedule
        /\ Cardinality(SetRefs(values)) > 1 => vresult = MultipleSchedules
        /\ Cardinality(SetRefs(values)) = 1 =>
               vresult \notin {MissingSchedule, MultipleSchedules}

OnlyClocked(v) == SetRefs(v) = {"clocked"}

\* C3: a task whose only schedule reference is clocked is rejected with the
\* clocked/one_off error when one_off is false, and is not rejected by that
\* rule when one_off is true.
C3_ClockedRequiresOneOff ==
    (vresult # Pending /\ OnlyClocked(values)) =>
        (vresult = ClockedNotOneOff <=> ~values["one_off"])

C3_Witness ==
    /\ OnlyClocked(values) /\ ~values["one_off"]
    /\ vresult = ClockedNotOneOff

\* C4: a task with both expires and expire_seconds set fails with a
\* validation error, and a task with exactly one schedule (one-off when
\* clocked) and at most one expiry field passes validation.
C4_ExpiryExclusive ==
    vresult # Pending =>
        /\ (values["expires"] # None /\ values["expire_seconds"] # None)
               => vresult \in ValidationErrors
        /\ ( /\ Cardinality(SetRefs(values)) = 1
             /\ (values["clocked"] # None => values["one_off"])
             /\ (values["expires"] = None \/ values["expire_seconds"] = None) )
               => vresult = Passed

\* ----------------------------------------------- SolarSchedule (models.py)
\* Coordinates are whole degrees.
LatitudeLimit == 90
LongitudeLimit == 180

ValueError == "ValueError"

\* A field validator either raises ValueError or returns the value.
validate_latitude(v) ==
    IF v < -LatitudeLimit \/ v > LatitudeLimit
    THEN [exc |-> ValueError, value |-> None]
    ELSE [exc |-> "", value |-> Some(v)]

validate_longitude(v) ==
    IF v < -LongitudeLimit \/ v > LongitudeLimit
    THEN [exc |-> ValueError, value |-> None]
    ELSE [exc |-> "", value |-> Some(v)]

\* SolarSchedule(latitude=lat, longitude=lon).  The class is declared
\* table=True: SQLModel never raises a validation error out of the
\* constructor of a table class.  Depending on the SQLModel release it
\* either skips validation and stores the keywords as given, or runs the
\* validators, drops their errors and leaves a rejected field unset.
SolarSchedule(lat, lon) ==
    { [state |-> "built", latitude |-> Some(lat), longitude |-> Some(lon)],
      [state |-> "built", latitude |-> validate_latitude(lat).value,
                          longitude |-> validate_longitude(lon).value] }

Construct ==
    /\ solar = NoSolar
    /\ solar' \in SolarSchedule(latitude, longitude)
    /\ UNCHANGED <<latitude, longitude, valVars, ivlVars, now, taskVars,
                   changed_rows, last, pc>>

InitSolar ==
    /\ latitude \in -(LatitudeLimit + Margin) .. (LatitudeLimit + Margin)
    /\ longitude \in -(LongitudeLimit + Margin) .. (LongitudeLimit + Margin)
    /\ solar = NoSolar
    /\ NoValidation /\ NoInterval /\ now = 0 /\ NoTasks

SpecSolar == InitSolar /\ [][Construct]_vars

InRange(lat, lon) ==
    /\ -LatitudeLimit <= lat /\ lat <= LatitudeLimit
    /\ -LongitudeLimit <= lon /\ lon <= LongitudeLimit

\* C7: constructing a SolarSchedule fails for every latitude outside
\* [-90, 90] and every longitude outside [-180, 180], and for in-range
\* values the constructed schedule holds exactly the values supplied.
C7_SolarRange ==
    solar # NoSolar =>
        IF InRange(latitude, longitude)
        THEN solar = [state |-> "built", latitude |-> Some(latitude),
                      longitude |-> Some(longitude)]
        ELSE solar.state = ValueError

\* -------------------------------------------- IntervalSchedule (models.py)
TypeError == "TypeError"

\* The members of IntervalPeriod and their values.
IntervalPeriod == {"days", "hours", "minutes", "seconds"}

\* What the period attribute can hold: a member of IntervalPeriod (the
\* declared type, and what the Enum column loads), or the plain string the
\* caller passed, which a table class stores as given.
Member(v) == [type |-> "IntervalPeriod", value |-> v]
Str(v) == [type |-> "str", value |-> v]
PeriodValues == {Member(v) : v \in IntervalPeriod} \cup {Str(v) : v \in IntervalPeriod}

\* timedelta(**{key: n}): a keyword must be a str, "keywords must be
\* strings" otherwise; the result is in seconds.
timedelta(key, n) ==
    IF key.type # "str" THEN [exc |-> TypeError, seconds |-> 0]
    ELSE [exc |-> "",
          seconds |-> CASE key.value = "days" -> n * 86400
                        [] key.value = "hours" -> n * 3600
                        [] key.value = "minutes" -> n * 60
                        [] OTHER -> n]

Max(a, b) == IF a >= b THEN a ELSE b

\* schedules.schedule(run_every, nowfun=nowfun).is_due(ran_at): the time left
\* until ran_at + run_every, floored at 0; due when nothing is left, and then
\* the next check is a full period away.
is_due(run_every, ran_at) ==
    LET remaining_s == Max((ran_at + run_every) - nowfun, 0)
    IN IF remaining_s = 0
       THEN [exc |-> "", is_due |-> TRUE, next |-> run_every, at |-> nowfun]
       ELSE [exc |-> "", is_due |-> FALSE, next |-> remaining_s, at |-> nowfun]

\* IntervalSchedule.schedule, then is_due on the schedule it returns.
schedule_is_due(ivl, ran_at) ==
    LET run_every == timedelta(ivl.period, ivl.every)
    IN IF run_every.exc # ""
       THEN [exc |-> run_every.exc, is_due |-> FALSE, next |-> 0, at |-> nowfun]
       ELSE is_due(run_every.seconds, ran_at)

EvalDue ==
    /\ due' = schedule_is_due(interval, last_run_at)
    /\ UNCHANGED <<interval, last_run_at, now, valVars, solVars, taskVars,
                   changed_rows, last, pc>>

IntervalTick ==
    /\ now < MaxClock
    /\ now' = now + 1
    /\ UNCHANGED <<ivlVars, valVars, solVars, taskVars, changed_rows, last, pc>>

InitInterval ==
    /\ interval \in [every : 1 .. MaxEvery, period : PeriodValues]
    /\ last_run_at \in 0 .. 1
    /\ now = last_run_at
    /\ due = NoDue
    /\ NoValidation /\ NoSolarInput /\ NoTasks

SpecInterval == InitInterval /\ [][EvalDue \/ IntervalTick]_vars

\* C9: for an IntervalSchedule with every = N and period = seconds and a
\* task with last_run_at = t0, is_due at t0 + N - 1 reports not due and at
\* t0 + N reports due; when not due the next check is the time left until
\* t0 + N, and it is never negative.
C9_IntervalDue ==
    (due # NoDue /\ interval.period.value = "seconds") =>
        /\ due.exc = ""
        /\ due.at = last_run_at + interval.every - 1 => ~due.is_due
        /\ due.at = last_run_at + interval.every => due.is_due
        /\ ~due.is_due => due.next = last_run_at + interval.every - due.at
        /\ due.next >= 0

\* ------------------------------------- PeriodicTasksChanged (models.py)
AttributeError == "AttributeError"

\* objects.update_or_create(ident=i, defaults={"last_update": t}), by what
\* the call denotes: the row with that ident gets last_update = t; it is
\* inserted when there is none.
update_or_create(rows, i, t) ==
    IF \E r \in rows : r.ident = i
    THEN {IF r.ident = i THEN [r EXCEPT !.last_update = t] ELSE r : r \in rows}
    ELSE rows \cup {[ident |-> i, last_update |-> t]}

\* update_changed(cls, session, **kwargs), called with the positional
\* arguments args: session is required.
update_changed(args, rows) ==
    IF Len(args) < 1 THEN [exc |-> TypeError, rows |-> rows]
    ELSE [exc |-> "", rows |-> update_or_create(rows, 1, nowfun)]

\* changed(cls, session, instance, **kwargs), called with the positional
\* arguments args: session and instance are both required.  It calls
\* cls.update_changed() with no argument.
changed(args, rows) ==
    IF Len(args) < 2 THEN [exc |-> TypeError, rows |-> rows]
    ELSE IF ~args[2]["no_changes"] THEN update_changed(<< >>, rows)
    ELSE [exc |-> "", rows |-> rows]

\* last_change(cls, session): session.get gives the row with ident 1, or
\* None when there is none (it does not raise NoResultFound); reading
\* .last_update of None raises AttributeError, which is not caught.
last_change(rows) ==
    IF \E r \in rows : r.ident = 1
    THEN [exc |-> "", ret |-> Some((CHOOSE r \in rows : r.ident = 1).last_update)]
    ELSE [exc |-> AttributeError, ret |-> None]

\* --------------------------------------- PeriodicTask.save and .delete
\* "if not self.enabled: self.last_run_at = None"
clear_last_run_kept(rec) == rec

clear_last_run(rec) ==
    IF ~rec["enabled"] THEN [rec EXCEPT !["last_run_at"] = None] ELSE rec

\* session.commit(): the session flushes every object it holds, not only
\* the one just added: a held object is written as it stands in memory, an
\* object marked by session.delete loses its row.
commit(rows, objs, held, gone) ==
    [t \in DOMAIN rows |->
        IF t \in gone THEN None
        ELSE IF t \in held THEN objs[t]
        ELSE rows[t]]

Call(op, t, exc, ret, had) ==
    [op |-> op, task |-> t, at |-> nowfun, exc |-> exc, ret |-> ret, had |-> had]

\* ModelMixin.create(**kwargs) on PeriodicTask.  PeriodicTask is declared
\* table=True, so the constructor raises no validation error: the object
\* holds the keywords as given.
Create(t, kw) ==
    /\ mem[t] = None
    /\ mem' = [mem EXCEPT ![t] = Some(WithAttrs(TaskDefaults, kw))]
    /\ last' = Call("create", t, "", None, None)
    /\ UNCHANGED <<db, attached, deleted, changed_rows, now, valVars, solVars,
                   ivlVars, pc>>

\* ModelMixin.update(**kwargs): setattr for every keyword.  An object that
\* was passed to delete is not used again.
Update(t, kw) ==
    /\ mem[t] # None /\ t \notin deleted
    /\ mem' = [mem EXCEPT ![t] = Some(WithAttrs(mem[t][1], kw))]
    /\ last' = Call("update", t, "", None, None)
    /\ UNCHANGED <<db, attached, deleted, changed_rows, now, valVars, solVars,
                   ivlVars, pc>>

\* PeriodicTask.save(session): clear last_run_at when disabled, add, commit,
\* then PeriodicTasksChanged.changed(self).
Save(t) ==
    /\ mem[t] # None /\ t \notin deleted
    /\ LET self == clear_last_run(mem[t][1])
           objs == [mem EXCEPT ![t] = Some(self)]
           held == attached \cup {t}
           note == changed(<<self>>, changed_rows)
       IN /\ mem' = objs
          /\ attached' = held
          /\ db' = commit(db, objs, held, deleted)
          /\ changed_rows' = note.rows
          /\ last' = Call("save", t, note.exc, None, mem[t][1]["last_run_at"])
    /\ UNCHANGED <<deleted, now, valVars, solVars, ivlVars, pc>>

\* PeriodicTask.delete(session) on a persisted object: session.delete(self)
\* marks the object, no commit follows; then
\* PeriodicTasksChanged.changed(self).
Delete(t) ==
    /\ t \in attached /\ t \notin deleted
    /\ deleted' = deleted \cup {t}
    /\ LET note == changed(<<mem[t][1]>>, changed_rows)
       IN /\ changed_rows' = note.rows
          /\ last' = Call("delete", t, note.exc, None, None)
    /\ UNCHANGED <<mem, db, attached, now, valVars, solVars, ivlVars, pc>>

\* PeriodicTasksChanged.update_changed(session), called by a client.
UpdateChanged ==
    /\ LET note == update_changed(<<"session">>, changed_rows)
       IN /\ changed_rows' = note.rows
          /\ last' = Call("update_changed", "none", note.exc, None, None)
    /\ UNCHANGED <<taskVars, now, valVars, solVars, ivlVars, pc>>

\* PeriodicTasksChanged.last_change(session), called by a client.
LastChange ==
    /\ LET got == last_change(changed_rows)
       IN last' = Call("last_change", "none", got.exc, got.ret, None)
    /\ UNCHANGED <<taskVars, changed_rows, now, valVars, solVars, ivlVars, pc>>

Tick ==
    /\ now < MaxTime
    /\ now' = now + 1
    /\ UNCHANGED <<taskVars, changed_rows, last, valVars, solVars, ivlVars, pc>>

\* --------------------------------- specification: tasks and the tracker
CreateInputs ==
    { [interval |-> Some(1)],
      [interval |-> Some(1), no_changes |-> TRUE] }

UpdateInputs ==
    { [interval |-> None],
      [expires |-> Some(0), expire_seconds |-> Some(1)] }

Init ==
    /\ NoTasks /\ now = 0
    /\ NoValidation /\ NoSolarInput /\ NoInterval

Next ==
    \/ \E t \in Tasks, kw \in CreateInputs : Create(t, kw)
    \/ \E t \in Tasks, kw \in UpdateInputs : Update(t, kw)
    \/ \E t \in Tasks : Save(t)
    \/ \E t \in Tasks : Delete(t)
    \/ UpdateChanged
    \/ LastChange
    \/ Tick

Spec == Init /\ [][Next]_vars

\* C1: once a save or delete is over, last_change() gives a timestamp that
\* is not None and not earlier than the time the save or delete was
\* invoked, also for a task whose no_changes flag is set.
C1_ChangeRecorded ==
    last.op \in {"save", "delete"} =>
        /\ last_change(changed_rows).exc = ""
        /\ last_change(changed_rows).ret # None
        /\ last_change(changed_rows).ret[1] >= last.at

\* The rules the claim names: zero or several schedules, clocked without
\* one_off, both expiry fields.
ViolatesRule(rec) ==
    \/ Cardinality(SetRefs(rec)) # 1
    \/ (rec["clocked"] # None /\ ~rec["one_off"])
    \/ (rec["expires"] # None /\ rec["expire_seconds"] # None)

\* C6: a PeriodicTask that violates a validation rule is never written to
\* the repository, whatever create, update and save calls are made.
C6_InvalidNeverPersisted ==
    \A t \in Tasks : db[t] # None => ~ViolatesRule(db[t][1])

\* C8: the tracker table holds at most one row, keyed ident = 1;
\* last_change() returns None without raising exactly when no change was
\* recorded; update_changed leaves the one row with the time of that call.
C8_SingleRow ==
    /\ Cardinality(changed_rows) <= 1
    /\ \A r \in changed_rows : r.ident = 1
    /\ last.op = "last_change" =>
           /\ last.exc = ""
           /\ last.ret = None <=> changed_rows = {}
    /\ last.op = "update_changed" =>
           changed_rows = {[ident |-> 1, last_update |-> last.at]}

\* ------------------------------ specification: enabling and disabling
DisableCreates == { [interval |-> Some(1)] }

DisableUpdates ==
    { [enabled |-> FALSE], [enabled |-> TRUE], [last_run_at |-> Some(nowfun)] }

NextDisable ==
    \/ \E t \in Tasks, kw \in DisableCreates : Create(t, kw)
    \/ \E t \in Tasks, kw \in DisableUpdates : Update(t, kw)
    \/ \E t \in Tasks : Save(t)
    \/ \E t \in Tasks : Delete(t)
    \/ Tick

SpecDisable == Init /\ [][NextDisable]_vars

\* C5 as claimed: after save on a disabled task the object and its row
\* have last_run_at = None, and so no persisted task is ever disabled with
\* a last_run_at that is not None.
C5_NoDisabledRowRan ==
    /\ (last.op = "save" /\ ~mem[last.task][1]["enabled"]) =>
           /\ mem[last.task][1]["last_run_at"] = None
           /\ db[last.task] # None
           /\ db[last.task][1]["last_run_at"] = None
    /\ \A t \in Tasks :
           (db[t] # None /\ ~db[t][1]["enabled"]) => db[t][1]["last_run_at"] = None

\* C5 amended: right after save on a disabled task, the object and the row
\* of that task have last_run_at = None, whatever it was before.
C5_SaveClearsLastRun ==
    (last.op = "save" /\ ~mem[last.task][1]["enabled"]) =>
        /\ mem[last.task][1]["last_run_at"] = None
        /\ db[last.task] # None
        /\ db[last.task][1] = mem[last.task][1]

C5_Witness ==
    /\ last.op = "save" /\ last.had # None
    /\ ~mem[last.task][1]["enabled"]
    /\ db[last.task] # None
    /\ db[last.task][1]["last_run_at"] = None

\* -------------------------------------- specification: two writers
\* Each writer holds one task in a session of its own and runs save and
\* delete statement by statement; the two writers' statements interleave.
TaskOf(w) == IF w = "w1" THEN "t1" ELSE "t2"

AtStep(w, step) == pc[w].step = step

\* save, up to session.add(self)
SaveAdd(w) ==
    /\ AtStep(w, "idle")
    /\ mem[TaskOf(w)] # None /\ TaskOf(w) \notin deleted
    /\ mem' = [mem EXCEPT ![TaskOf(w)] = Some(clear_last_run(mem[TaskOf(w)][1]))]
    /\ attached' = attached \cup {TaskOf(w)}
    /\ pc' = [pc EXCEPT ![w] = [step |-> "commit", op |-> "save", at |-> nowfun,
                                exc |-> "", ended |-> pc[w].ended]]
    /\ UNCHANGED <<db, deleted, changed_rows, last, now, valVars, solVars, ivlVars>>

\* save: session.commit() of the writer's session
SaveCommit(w) ==
    /\ AtStep(w, "commit")
    /\ db' = commit(db, mem, {TaskOf(w)}, deleted \cap {TaskOf(w)})
    /\ pc' = [pc EXCEPT ![w].step = "notify"]
    /\ UNCHANGED <<mem, attached, deleted, changed_rows, last, now, valVars,
                   solVars, ivlVars>>

\* delete, up to session.delete(self)
DeleteMark(w) ==
    /\ AtStep(w, "idle")
    /\ TaskOf(w) \in attached /\ TaskOf(w) \notin deleted
    /\ deleted' = deleted \cup {TaskOf(w)}
    /\ pc' = [pc EXCEPT ![w] = [step |-> "notify", op |-> "delete", at |-> nowfun,
                                exc |-> "", ended |-> pc[w].ended]]
    /\ UNCHANGED <<mem, db, attached, changed_rows, last, now, valVars, solVars,
                   ivlVars>>

\* the last statement of save and of delete:
\* PeriodicTasksChanged.changed(self); the call, and with it save or
\* delete, ends here.
Notify(w) ==
    /\ AtStep(w, "notify")
    /\ LET note == changed(<<mem[TaskOf(w)][1]>>, changed_rows)
       IN /\ changed_rows' = note.rows
          /\ pc' = [pc EXCEPT ![w].step = "idle", ![w].exc = note.exc,
                              ![w].ended = Some(nowfun)]
    /\ UNCHANGED <<taskVars, last, now, valVars, solVars, ivlVars>>

NextConcurrent ==
    \/ \E w \in Writers, kw \in CreateInputs : AtStep(w, "idle") /\ Create(TaskOf(w), kw)
    \/ \E w \in Writers : SaveAdd(w)
    \/ \E w \in Writers : SaveCommit(w)
    \/ \E w \in Writers : DeleteMark(w)
    \/ \E w \in Writers : Notify(w)
    \/ UpdateChanged
    \/ LastChange
    \/ Tick

SpecConcurrent == Init /\ [][NextConcurrent]_vars

\* C10: however the writers' save and delete calls interleave, the tracker
\* holds one ident = 1 row at most, no writer's tracker update fails, and a
\* last_change() read that starts after a writer's save or delete has ended
\* returns a timestamp that is not None and not later than the read.
C10_ConcurrentWriters ==
    /\ Cardinality(changed_rows) <= 1
    /\ \A r \in changed_rows : r.ident = 1
    /\ \A w \in Writers : pc[w].exc = ""
    /\ ( /\ last.op = "last_change"
         /\ \E w \in Writers : pc[w].ended # None /\ pc[w].ended[1] < last.at )
           => /\ last.exc = ""
              /\ last.ret # None
              /\ last.ret[1] <= last.at
====
